---- MODULE Spec2Model ----
(***************************************************************************)
(* libnmap/objects/os.py: CPE, NmapOSClass, NmapOSMatch and the            *)
(* construction and query surface of NmapOSFingerprint.                    *)
(*                                                                         *)
(* Python values are modelled as follows.                                  *)
(*   - a dict is a function whose domain is the set of its keys, so that   *)
(*     "k in d" is  k \in DOMAIN d;                                        *)
(*   - an int n is PyInt(n), the text of the decimal numeral n is          *)
(*     PyStr(n); int() maps both to the number n;                          *)
(*   - an object is a record with a field cls naming its class;            *)
(*   - a call that may raise yields Return(v) or Raise(e).                 *)
(***************************************************************************)
EXTENDS Integers, Sequences, FiniteSets, TLC

VARIABLES
    osfp_data,        \* the argument of NmapOSFingerprint.__init__
    pc,               \* the block of __init__ being executed, "done", or "raised"
    idx,              \* position of the running for loop in its list
    __osmatches,      \* self.__osmatches
    __ports_used,     \* self.__ports_used
    __fingerprints,   \* self.__fingerprints
    _osclass_obj,     \* the local _osclass_obj of __init__
    ret               \* outcome of the last call made on the constructed object

vars == <<osfp_data, pc, idx, __osmatches, __ports_used, __fingerprints, _osclass_obj, ret>>

----------------------------------------------------------------------------
(* Bounds of the explored inputs. *)

MaxMatches == 2     \* entries of osfp_data['osmatches']
MaxClasses == 2     \* entries of osfp_data['osclasses'], or of one match's 'osclasses'
MaxProbes == 3      \* entries of osfp_data['osfingerprints']

----------------------------------------------------------------------------
(* Python values. *)

PyInt(n) == [cls |-> "int", val |-> n]
PyStr(n) == [cls |-> "str", val |-> n]
None == [cls |-> "NoneType"]

Return(v) == [ok |-> TRUE, val |-> v]
Raise(e) == [ok |-> FALSE, exc |-> e]

\* int(x) for an int or for the text of a numeral
int(x) == x.val

\* n == x for an int n: int.__eq__ answers only for numbers, and neither class
\* of this file defines __eq__, so every other operand compares unequal
IntEq(n, x) == x.cls = "int" /\ x.val = n

\* d without key k
Drop(d, k) == [x \in DOMAIN d \ {k} |-> d[x]]

\* the sequences over S of length at most n
SeqUpTo(S, n) == UNION {[1..k -> S] : k \in 0..n}

----------------------------------------------------------------------------
(* class CPE *)

CPE(cpestring) == [cls |-> "CPE", cpestring |-> cpestring]

----------------------------------------------------------------------------
(* class NmapOSClass *)

\* NmapOSClass.__init__ were osgen and type required as well
NmapOSClass_StrictOptional(osclass_dict) ==
    LET _osclass == osclass_dict.osclass IN
    IF {"vendor", "osfamily", "accuracy", "osgen", "type"} \subseteq DOMAIN _osclass
    THEN Return([cls |-> "NmapOSClass",
                 vendor |-> _osclass.vendor,
                 osfamily |-> _osclass.osfamily,
                 accuracy |-> _osclass.accuracy,
                 osgen |-> _osclass.osgen,
                 type |-> _osclass.type,
                 cpelist |-> [k \in 1..Len(osclass_dict.cpe) |-> CPE(osclass_dict.cpe[k])]])
    ELSE Raise("Exception")

\* NmapOSClass.__init__
NmapOSClass(osclass_dict) ==
    LET _osclass == osclass_dict.osclass IN
    IF \/ "vendor" \notin DOMAIN _osclass
       \/ "osfamily" \notin DOMAIN _osclass
       \/ "accuracy" \notin DOMAIN _osclass
    THEN Raise("Exception")
    ELSE Return([cls |-> "NmapOSClass",
                 vendor |-> _osclass.vendor,
                 osfamily |-> _osclass.osfamily,
                 accuracy |-> _osclass.accuracy,
                 osgen |-> IF "osgen" \in DOMAIN _osclass THEN _osclass.osgen ELSE "",
                 type |-> IF "type" \in DOMAIN _osclass THEN _osclass.type ELSE "",
                 cpelist |-> [k \in 1..Len(osclass_dict.cpe) |-> CPE(osclass_dict.cpe[k])]])

\* the accuracy property of NmapOSClass and of NmapOSMatch
accuracy(obj) == int(obj.accuracy)

\* the line property of NmapOSMatch
line(obj) == int(obj.line)

----------------------------------------------------------------------------
(* class NmapOSMatch *)

\* NmapOSMatch.__init__ were each nested class inserted at the front of the list
NmapOSMatch_Prepend(osmatch_dict) ==
    LET _osmatch_dict == osmatch_dict.osmatch IN
    IF ~({"name", "line", "accuracy"} \subseteq DOMAIN _osmatch_dict)
    THEN Raise("Exception")
    ELSE LET self == [cls |-> "NmapOSMatch",
                      name |-> _osmatch_dict.name,
                      line |-> _osmatch_dict.line,
                      accuracy |-> _osmatch_dict.accuracy,
                      osclasses |-> <<>>]
         IN  IF "osclasses" \notin DOMAIN osmatch_dict
             THEN Return(self)
             ELSE LET n == Len(osmatch_dict.osclasses)
                      built == [k \in 1..n |-> NmapOSClass(osmatch_dict.osclasses[n + 1 - k])]
                  IN  IF \E k \in DOMAIN built : ~built[k].ok
                      THEN Raise("Exception")
                      ELSE Return([self EXCEPT !.osclasses =
                                      [k \in DOMAIN built |-> built[k].val]])

\* NmapOSMatch.__init__
NmapOSMatch(osmatch_dict) ==
    LET _osmatch_dict == osmatch_dict.osmatch IN
    IF \/ "name" \notin DOMAIN _osmatch_dict
       \/ "line" \notin DOMAIN _osmatch_dict
       \/ "accuracy" \notin DOMAIN _osmatch_dict
    THEN Raise("Exception")
    ELSE LET self == [cls |-> "NmapOSMatch",
                      name |-> _osmatch_dict.name,
                      line |-> _osmatch_dict.line,
                      accuracy |-> _osmatch_dict.accuracy,
                      osclasses |-> <<>>]
         IN  IF "osclasses" \notin DOMAIN osmatch_dict
             THEN Return(self)     \* KeyError, caught: the list stays empty
             ELSE LET built == [k \in 1..Len(osmatch_dict.osclasses) |->
                                    NmapOSClass(osmatch_dict.osclasses[k])]
                  IN  IF \E k \in DOMAIN built : ~built[k].ok
                      THEN Raise("Exception")
                      ELSE Return([self EXCEPT !.osclasses =
                                      [k \in DOMAIN built |-> built[k].val]])

\* NmapOSMatch.add_osclass: the outcome of self.add_osclass(class_dict), the
\* value returned being self after the call.
\*   - class_dict an object of this file: neither class defines __contains__
\*     or __iter__, so the "in" test raises TypeError;
\*   - class_dict a dict holding 'osclass': self.__osclasses is the mangled
\*     attribute _NmapOSMatch__osclasses, which __init__ never sets (it sets
\*     _osclasses), so the append raises AttributeError;
\*   - any other dict: the method's own Exception.
add_osclass(self, class_dict) ==
    IF "cls" \in DOMAIN class_dict
    THEN Raise("TypeError")
    ELSE IF "osclass" \in DOMAIN class_dict
         THEN Raise("AttributeError")
         ELSE Raise("Exception")

----------------------------------------------------------------------------
(* class NmapOSFingerprint *)

\* NmapOSFingerprint.get_osmatch: the position in osmatches of the NmapOSMatch
\* returned (the object itself is returned by reference), 0 for None.
get_osmatch(osmatches_, accuracy_) ==
    LET hits == {k \in DOMAIN osmatches_ : IntEq(accuracy(osmatches_[k]), accuracy_)} IN
    IF hits = {} THEN 0 ELSE CHOOSE k \in hits : \A h \in hits : k <= h

\* _add_dummy_osmatch were the dummy inserted at the front of self.__osmatches
_add_dummy_osmatch_Prepend(osmatches_, osclass_obj) ==
    LET _dname == osclass_obj.type \o ":" \o osclass_obj.vendor \o ":" \o osclass_obj.osfamily
        _dummy_dict == [osmatch |-> [name |-> _dname,
                                     accuracy |-> PyInt(accuracy(osclass_obj)),
                                     line |-> PyInt(-1)],
                        osclasses |-> <<>>]
        _dummy_osmatch == NmapOSMatch(_dummy_dict)
    IN  IF _dummy_osmatch.ok
        THEN Return(<<_dummy_osmatch.val>> \o osmatches_)
        ELSE _dummy_osmatch

\* NmapOSFingerprint._add_dummy_osmatch: self.__osmatches after the call
_add_dummy_osmatch(osmatches_, osclass_obj) ==
    LET _dname == osclass_obj.type \o ":" \o osclass_obj.vendor \o ":" \o osclass_obj.osfamily
        _dummy_dict == [osmatch |-> [name |-> _dname,
                                     accuracy |-> PyInt(accuracy(osclass_obj)),
                                     line |-> PyInt(-1)],
                        osclasses |-> <<>>]
        _dummy_osmatch == NmapOSMatch(_dummy_dict)
    IN  IF _dummy_osmatch.ok
        THEN Return(Append(osmatches_, _dummy_osmatch.val))
        ELSE _dummy_osmatch

\* the body of NmapOSFingerprint.osmatches
osmatches(osmatches_, min_accuracy) ==
    SelectSeq(osmatches_, LAMBDA _osmatch : accuracy(_osmatch) >= min_accuracy)

\* sep.join(strs)
RECURSIVE join(_, _)
join(sep, strs) ==
    IF strs = <<>> THEN ""
    ELSE IF Len(strs) = 1 THEN strs[1]
    ELSE join(sep, SubSeq(strs, 1, Len(strs) - 1)) \o sep \o strs[Len(strs)]

\* fingerprint were the separator "\n"
fingerprint_Newline(fingerprints_) == join("\n", fingerprints_)

\* the body of NmapOSFingerprint.fingerprint
fingerprint(fingerprints_) == join("\r\n", fingerprints_)

\* the body of NmapOSFingerprint.fingerprints
fingerprints(fingerprints_) == fingerprints_

----------------------------------------------------------------------------
(* The decoded reports explored.  A report's numbers are all ints or all    *)
(* text (txt), as the decoder that produced it writes them.                 *)

Accs == {70, 95}

Raw(txt, n) == IF txt THEN PyStr(n) ELSE PyInt(n)

\* the 'osclass' attribute dicts
LinuxAttrs(a) ==
    [vendor |-> "Linux", osfamily |-> "Linux", osgen |-> "3.X",
     type |-> "general purpose", accuracy |-> a]
CiscoAttrs(a) == [vendor |-> "Cisco", osfamily |-> "IOS", type |-> "router", accuracy |-> a]
WindowsAttrs(a) == [vendor |-> "Microsoft", osfamily |-> "Windows", osgen |-> "7", accuracy |-> a]

\* the osclass dicts
LinuxClass(a) == [osclass |-> LinuxAttrs(a), cpe |-> <<"cpe:/o:linux:linux_kernel:3">>]
CiscoClass(a) == [osclass |-> CiscoAttrs(a), cpe |-> <<"cpe:/h:cisco:router", "cpe:/o:cisco:ios:12">>]
WindowsClass(a) == [osclass |-> WindowsAttrs(a), cpe |-> <<>>]

\* the 'osmatch' attribute dicts
LinuxMatch(txt, a) == [name |-> "Linux 3.x", line |-> Raw(txt, 12), accuracy |-> Raw(txt, a)]
CiscoMatch(txt, a) == [name |-> "Cisco IOS 12.X", line |-> Raw(txt, 34), accuracy |-> Raw(txt, a)]

ClassRequired == {"vendor", "osfamily", "accuracy"}
MatchRequired == {"name", "line", "accuracy"}

\* an optional group: {} when absent, {v} when present with value v
Options(S) == {{}} \cup {{v} : v \in S}
Opt(key, o) == IF o = {} THEN <<>> ELSE key :> (CHOOSE v \in o : TRUE)

Report(ms, cs, fs, ps) ==
    Opt("osmatches", ms) @@ Opt("osclasses", cs) @@ Opt("osfingerprints", fs)
        @@ Opt("ports_used", ps)

\* legacy reports: matches without nested classes, classes beside them
LegacyMatches(txt) ==
    {[osmatch |-> LinuxMatch(txt, a)] : a \in Accs} \cup {[osmatch |-> CiscoMatch(txt, a)] : a \in Accs}
LegacyClasses(txt) ==
    {LinuxClass(Raw(txt, 95)), CiscoClass(Raw(txt, 70)), WindowsClass(Raw(txt, 70))}
Legacy(txt) ==
    {Report(ms, cs, {}, {}) :
        ms \in Options(SeqUpTo(LegacyMatches(txt), MaxMatches)),
        cs \in Options(SeqUpTo(LegacyClasses(txt), MaxClasses))}

\* reports of the newer schema: classes nested in their match, no 'osclasses'
NestedClasses(txt) == {LinuxClass(Raw(txt, 95)), CiscoClass(Raw(txt, 70))}
NestedMatches(txt) ==
    {[osmatch |-> LinuxMatch(txt, 95), osclasses |-> cl] :
        cl \in SeqUpTo(NestedClasses(txt), MaxClasses)}
NewSchema(txt) ==
    {Report({ms}, {}, {}, {}) : ms \in SeqUpTo(NestedMatches(txt), MaxMatches)}

\* reports mixing nested and sibling classes, well-formed and malformed records
BadClasses(txt) == {[osclass |-> Drop(LinuxAttrs(Raw(txt, 95)), k),
                     cpe |-> <<>>] : k \in ClassRequired}
BadMatches(txt) ==
    {[osmatch |-> Drop(LinuxMatch(txt, 95), k)] : k \in MatchRequired}
        \cup {[osmatch |-> CiscoMatch(txt, 70),
               osclasses |-> <<CiscoClass(Raw(txt, 70)),
                               [osclass |-> Drop(CiscoAttrs(Raw(txt, 70)), "vendor"),
                                cpe |-> <<>>]>>]}
MixedMatches(txt) ==
    BadMatches(txt) \cup {[osmatch |-> LinuxMatch(txt, 95)],
                          [osmatch |-> CiscoMatch(txt, 70),
                           osclasses |-> <<WindowsClass(Raw(txt, 95))>>]}
MixedClasses(txt) == BadClasses(txt) \cup {WindowsClass(Raw(txt, 70))}
Mixed(txt) ==
    {Report({ms}, cs, {}, {}) :
        ms \in SeqUpTo(MixedMatches(txt), MaxMatches),
        cs \in Options(SeqUpTo(MixedClasses(txt), MaxClasses - 1))}

\* reports carrying fingerprint probes and the ports used
ProbeEntries ==
    {[fingerprint |-> "OS:Linux SEQ(...)"], [fingerprint |-> "OPS(...)"], [other |-> "x"]}
PortsUsed == {<<>>, <<[state |-> "open", proto |-> "tcp", portid |-> "22"]>>}
Probes(txt) ==
    {Report(ms, {}, fs, ps) :
        ms \in Options({<<>>, <<[osmatch |-> LinuxMatch(txt, 95)]>>}),
        fs \in Options(SeqUpTo(ProbeEntries, MaxProbes)),
        ps \in Options(PortsUsed)}

Reports ==
    UNION {Legacy(txt) \cup NewSchema(txt) \cup Mixed(txt) \cup Probes(txt) : txt \in BOOLEAN}

----------------------------------------------------------------------------
(* NmapOSFingerprint.__init__, one action per loop iteration. *)

Init ==
    /\ osfp_data \in Reports
    /\ pc = "osmatches"
    /\ idx = 1
    /\ __osmatches = <<>>
    /\ __ports_used = <<>>
    /\ __fingerprints = <<>>
    /\ _osclass_obj = None
    /\ ret = [op |-> "none"]

\* whether the loop over osfp_data[group] has an entry left at idx
HasEntry(group) == group \in DOMAIN osfp_data /\ idx <= Len(osfp_data[group])

\* one iteration of "for _osmatch in osfp_data['osmatches']"
InitOsmatch ==
    /\ pc = "osmatches"
    /\ HasEntry("osmatches")
    /\ LET _osmatch_obj == NmapOSMatch(osfp_data.osmatches[idx]) IN
       IF _osmatch_obj.ok
       THEN /\ __osmatches' = Append(__osmatches, _osmatch_obj.val)
            /\ idx' = idx + 1
            /\ pc' = pc
       ELSE /\ pc' = "raised"
            /\ UNCHANGED <<__osmatches, idx>>
    /\ UNCHANGED <<osfp_data, __ports_used, __fingerprints, _osclass_obj, ret>>

\* 'osmatches' absent or exhausted
EndOsmatches ==
    /\ pc = "osmatches"
    /\ ~HasEntry("osmatches")
    /\ pc' = "osclasses"
    /\ idx' = 1
    /\ UNCHANGED <<osfp_data, __osmatches, __ports_used, __fingerprints, _osclass_obj, ret>>

\* one iteration of "for _osclass in osfp_data['osclasses']"
InitOsclass ==
    /\ pc = "osclasses"
    /\ HasEntry("osclasses")
    /\ LET built == NmapOSClass(osfp_data.osclasses[idx])
           _osmatched == get_osmatch(__osmatches, built.val)
           added == add_osclass(__osmatches[_osmatched], built.val)
           dummy == _add_dummy_osmatch(__osmatches, built.val)
       IN  IF ~built.ok
           THEN /\ pc' = "raised"
                /\ UNCHANGED <<__osmatches, idx, _osclass_obj>>
           ELSE /\ _osclass_obj' = built.val
                /\ IF _osmatched # 0
                   THEN IF added.ok
                        THEN /\ __osmatches' = [__osmatches EXCEPT ![_osmatched] = added.val]
                             /\ idx' = idx + 1
                             /\ pc' = pc
                        ELSE /\ pc' = "raised"
                             /\ UNCHANGED <<__osmatches, idx>>
                   ELSE IF dummy.ok
                        THEN /\ __osmatches' = dummy.val
                             /\ idx' = idx + 1
                             /\ pc' = pc
                        ELSE /\ pc' = "raised"
                             /\ UNCHANGED <<__osmatches, idx>>
    /\ UNCHANGED <<osfp_data, __ports_used, __fingerprints, ret>>

\* 'osclasses' absent or exhausted
EndOsclasses ==
    /\ pc = "osclasses"
    /\ ~HasEntry("osclasses")
    /\ pc' = "osfingerprints"
    /\ idx' = 1
    /\ UNCHANGED <<osfp_data, __osmatches, __ports_used, __fingerprints, _osclass_obj, ret>>

\* one iteration of "for _osfp in osfp_data['osfingerprints']"
InitOsfingerprint ==
    /\ pc = "osfingerprints"
    /\ HasEntry("osfingerprints")
    /\ LET _osfp == osfp_data.osfingerprints[idx] IN
       __fingerprints' = IF "fingerprint" \in DOMAIN _osfp
                         THEN Append(__fingerprints, _osfp.fingerprint)
                         ELSE __fingerprints
    /\ idx' = idx + 1
    /\ UNCHANGED <<osfp_data, pc, __osmatches, __ports_used, _osclass_obj, ret>>

\* 'osfingerprints' absent or exhausted
EndOsfingerprints ==
    /\ pc = "osfingerprints"
    /\ ~HasEntry("osfingerprints")
    /\ pc' = "ports_used"
    /\ idx' = 1
    /\ UNCHANGED <<osfp_data, __osmatches, __ports_used, __fingerprints, _osclass_obj, ret>>

\* the 'ports_used' block, and the return of __init__
InitPortsUsed ==
    /\ pc = "ports_used"
    /\ __ports_used' = IF "ports_used" \in DOMAIN osfp_data
                       THEN osfp_data.ports_used
                       ELSE __ports_used
    /\ pc' = "done"
    /\ UNCHANGED <<osfp_data, idx, __osmatches, __fingerprints, _osclass_obj, ret>>

----------------------------------------------------------------------------
(* Calls on the constructed NmapOSFingerprint. ret records the call and its  *)
(* outcome.                                                                 *)

\* self.osmatches(min_accuracy): osmatches is a property, so the attribute
\* read self.osmatches already runs the body with the default min_accuracy and
\* yields a list; the call then applies that list to the argument, which
\* raises TypeError.
osmatches_call(osmatches_, min_accuracy) == Raise("TypeError")

\* the thresholds asked for
MinAccuracies == {0, 70, 95, 96}

\* the arguments given to add_osclass: a built NmapOSClass, an osclass dict,
\* an attribute dict
AddArgs ==
    {NmapOSClass(WindowsClass(PyInt(70))).val, LinuxClass(PyInt(95)), LinuxAttrs(PyInt(95))}

\* fp.osmatches
GetOsmatches ==
    /\ pc = "done"
    /\ ret' = [op |-> "osmatches", out |-> Return(osmatches(__osmatches, 0))]
    /\ UNCHANGED <<osfp_data, pc, idx, __osmatches, __ports_used, __fingerprints, _osclass_obj>>

\* fp.osmatches(min_accuracy)
CallOsmatches ==
    /\ pc = "done"
    /\ \E min_accuracy \in MinAccuracies :
          ret' = [op |-> "osmatches()", min_accuracy |-> min_accuracy,
                  out |-> osmatches_call(__osmatches, min_accuracy)]
    /\ UNCHANGED <<osfp_data, pc, idx, __osmatches, __ports_used, __fingerprints, _osclass_obj>>

\* fp.fingerprint
GetFingerprint ==
    /\ pc = "done"
    /\ ret' = [op |-> "fingerprint", out |-> Return(fingerprint(__fingerprints))]
    /\ UNCHANGED <<osfp_data, pc, idx, __osmatches, __ports_used, __fingerprints, _osclass_obj>>

\* fp.fingerprints
GetFingerprints ==
    /\ pc = "done"
    /\ ret' = [op |-> "fingerprints", out |-> Return(fingerprints(__fingerprints))]
    /\ UNCHANGED <<osfp_data, pc, idx, __osmatches, __ports_used, __fingerprints, _osclass_obj>>

\* fp.get_osmatch(accuracy) with an int
CallGetOsmatch ==
    /\ pc = "done"
    /\ \E a \in Accs :
          ret' = [op |-> "get_osmatch", accuracy |-> a,
                  out |-> Return(get_osmatch(__osmatches, PyInt(a)))]
    /\ UNCHANGED <<osfp_data, pc, idx, __osmatches, __ports_used, __fingerprints, _osclass_obj>>

\* m.add_osclass(class_dict) on the k-th match m of the result
CallAddOsclass ==
    /\ pc = "done"
    /\ \E k \in DOMAIN __osmatches, class_dict \in AddArgs :
          LET added == add_osclass(__osmatches[k], class_dict) IN
          /\ ret' = [op |-> "add_osclass", match |-> k, before |-> __osmatches[k],
                     class_dict |-> class_dict, ok |-> added.ok]
          /\ __osmatches' = IF added.ok
                            THEN [__osmatches EXCEPT ![k] = added.val]
                            ELSE __osmatches
    /\ UNCHANGED <<osfp_data, pc, idx, __ports_used, __fingerprints, _osclass_obj>>

Next ==
    \/ InitOsmatch
    \/ EndOsmatches
    \/ InitOsclass
    \/ EndOsclasses
    \/ InitOsfingerprint
    \/ EndOsfingerprints
    \/ InitPortsUsed
    \/ GetOsmatches
    \/ CallOsmatches
    \/ GetFingerprint
    \/ GetFingerprints
    \/ CallGetOsmatch
    \/ CallAddOsclass

Spec == Init /\ [][Next]_vars

----------------------------------------------------------------------------
(* What the report says, read off osfp_data. *)

InMatches == IF "osmatches" \in DOMAIN osfp_data THEN osfp_data.osmatches ELSE <<>>
InClasses == IF "osclasses" \in DOMAIN osfp_data THEN osfp_data.osclasses ELSE <<>>
InProbes == IF "osfingerprints" \in DOMAIN osfp_data THEN osfp_data.osfingerprints ELSE <<>>
InNested(m) == IF "osclasses" \in DOMAIN m THEN m.osclasses ELSE <<>>

Done == pc = "done"

\* the value of an optional text field of a class record
Field(d, k) == IF k \in DOMAIN d.osclass THEN d.osclass[k] ELSE ""

\* class object c carries class record d
Represents(c, d) ==
    /\ c.cls = "NmapOSClass"
    /\ c.vendor = d.osclass.vendor
    /\ c.osfamily = d.osclass.osfamily
    /\ accuracy(c) = int(d.osclass.accuracy)
    /\ c.osgen = Field(d, "osgen")
    /\ c.type = Field(d, "type")
    /\ Len(c.cpelist) = Len(d.cpe)
    /\ \A k \in DOMAIN d.cpe : c.cpelist[k].cpestring = d.cpe[k]

\* match object m carries the name, line and accuracy of match record r
Declares(m, r) ==
    /\ m.name = r.osmatch.name
    /\ line(m) = int(r.osmatch.line)
    /\ accuracy(m) = int(r.osmatch.accuracy)

\* match object m is the placeholder made for class record d
PlaceholderOf(m, d) ==
    /\ line(m) = -1
    /\ m.name = Field(d, "type") \o ":" \o d.osclass.vendor \o ":" \o d.osclass.osfamily
    /\ accuracy(m) = int(d.osclass.accuracy)

\* positions of the matches of 'osmatches' whose accuracy is that of class record d
SameAccuracy(d) ==
    {k \in DOMAIN InMatches : int(InMatches[k].osmatch.accuracy) = int(d.osclass.accuracy)}

First(S) == CHOOSE k \in S : \A h \in S : k <= h

RECURSIVE Sum(_, _)
Sum(f, S) == IF S = {} THEN 0 ELSE LET x == CHOOSE y \in S : TRUE IN f[x] + Sum(f, S \ {x})

ClassOk(d) == ClassRequired \subseteq DOMAIN d.osclass
MatchOk(r) ==
    /\ MatchRequired \subseteq DOMAIN r.osmatch
    /\ \A k \in DOMAIN InNested(r) : ClassOk(InNested(r)[k])

----------------------------------------------------------------------------
(* The claims. *)

\* C1: once construction is done, every entry of 'osclasses' whose integer
\* accuracy equals that of a match built from 'osmatches' is in the class list
\* of the first such match, and no placeholder (line -1) was made for it.
C1_AttributedToFirstMatch ==
    Done =>
        \A j \in DOMAIN InClasses :
            LET d == InClasses[j] IN
            SameAccuracy(d) # {} =>
                /\ \E c \in DOMAIN __osmatches[First(SameAccuracy(d))].osclasses :
                      Represents(__osmatches[First(SameAccuracy(d))].osclasses[c], d)
                /\ ~\E k \in DOMAIN __osmatches : PlaceholderOf(__osmatches[k], d)

\* C2: once construction is done, every entry of 'osclasses' whose accuracy is
\* that of no match built from 'osmatches' has a placeholder match: line -1,
\* name "{type}:{vendor}:{osfamily}", the class's accuracy, and a class list
\* holding exactly that class.
C2_PlaceholderHoldsItsClass ==
    Done =>
        \A j \in DOMAIN InClasses :
            LET d == InClasses[j] IN
            SameAccuracy(d) = {} =>
                \E k \in DOMAIN __osmatches :
                    /\ PlaceholderOf(__osmatches[k], d)
                    /\ Len(__osmatches[k].osclasses) = 1
                    /\ Represents(__osmatches[k].osclasses[1], d)

\* C3: once construction is done, the class lists of the result hold as many
\* classes as the report has class records (nested and sibling), and every
\* class record is carried by a class of some match.
C3_NoClassDropped ==
    Done =>
        /\ Sum([k \in DOMAIN __osmatches |-> Len(__osmatches[k].osclasses)], DOMAIN __osmatches)
              = Sum([k \in DOMAIN InMatches |-> Len(InNested(InMatches[k]))], DOMAIN InMatches)
                    + Len(InClasses)
        /\ \A j \in DOMAIN InClasses :
              \E k \in DOMAIN __osmatches : \E c \in DOMAIN __osmatches[k].osclasses :
                  Represents(__osmatches[k].osclasses[c], InClasses[j])

\* C4: fp.osmatches(X) returns the matches of the stored list whose accuracy
\* is at least X, in stored order, and fp.osmatches returns the whole list.
C4_FilteredByMinAccuracy ==
    /\ ret.op = "osmatches()" =>
          ret.out = Return(SelectSeq(__osmatches,
                                     LAMBDA m : accuracy(m) >= ret.min_accuracy))
    /\ ret.op = "osmatches" => ret.out = Return(__osmatches)

\* C5: construction never gets past a match record without name, line or
\* accuracy, nor past a class record without vendor, osfamily or accuracy; it
\* raises only for such a record; and a class built from a record without
\* osgen or type has the empty string there.
C5_RequiredFields ==
    /\ pc = "osmatches" => \A k \in 1..(idx - 1) : MatchOk(InMatches[k])
    /\ pc \in {"osclasses", "osfingerprints", "ports_used", "done"} =>
          \A k \in DOMAIN InMatches : MatchOk(InMatches[k])
    /\ pc = "osclasses" => \A k \in 1..(idx - 1) : ClassOk(InClasses[k])
    /\ pc \in {"osfingerprints", "ports_used", "done"} =>
          \A k \in DOMAIN InClasses : ClassOk(InClasses[k])
    /\ pc = "raised" =>
          \/ \E k \in DOMAIN InMatches : ~MatchOk(InMatches[k])
          \/ \E k \in DOMAIN InClasses : ~ClassOk(InClasses[k])
    /\ \A k \in DOMAIN __osmatches : \A c \in DOMAIN __osmatches[k].osclasses :
          k <= Len(InMatches) =>
              /\ __osmatches[k].osclasses[c].osgen = Field(InNested(InMatches[k])[c], "osgen")
              /\ __osmatches[k].osclasses[c].type = Field(InNested(InMatches[k])[c], "type")
    /\ (pc = "osclasses" /\ idx > 1) =>
          /\ _osclass_obj.osgen = Field(InClasses[idx - 1], "osgen")
          /\ _osclass_obj.type = Field(InClasses[idx - 1], "type")

\* a match with a nested class lacking 'type' was built, that class showing
\* '' as its type, and the next match record, lacking 'name', raised
C5_Witness ==
    /\ pc = "raised"
    /\ Len(__osmatches) = 1
    /\ Len(InMatches) = 2
    /\ "name" \notin DOMAIN InMatches[2].osmatch
    /\ Len(__osmatches[1].osclasses) = 1
    /\ "type" \notin DOMAIN InMatches[1].osclasses[1].osclass
    /\ __osmatches[1].osclasses[1].type = ""

\* C6: for a report without 'osclasses', once construction is done the result
\* has one match per entry of 'osmatches', and the class list of each is, in
\* order and element for element, the class records nested under that entry.
C6_NestedRoundTrip ==
    (Done /\ "osclasses" \notin DOMAIN osfp_data) =>
        /\ Len(__osmatches) = Len(InMatches)
        /\ \A k \in DOMAIN InMatches :
              /\ Declares(__osmatches[k], InMatches[k])
              /\ Len(__osmatches[k].osclasses) = Len(InNested(InMatches[k]))
              /\ \A c \in DOMAIN InNested(InMatches[k]) :
                    Represents(__osmatches[k].osclasses[c], InNested(InMatches[k])[c])

\* two matches, the first with two different nested classes
C6_Witness ==
    /\ Done
    /\ "osclasses" \notin DOMAIN osfp_data
    /\ Len(__osmatches) = 2
    /\ Len(__osmatches[1].osclasses) = 2
    /\ __osmatches[1].osclasses[1].vendor = "Linux"
    /\ __osmatches[1].osclasses[2].vendor = "Cisco"
    /\ Len(__osmatches[2].osclasses) = 1

\* the strictly increasing maps from 1..n into 1..m
Increasing(n, m) == {f \in [1..n -> 1..m] : \A a, b \in 1..n : a < b => f[a] < f[b]}

\* the number of matches of the result built from 'osmatches' so far
Declared == IF pc = "osmatches" THEN idx - 1 ELSE Len(InMatches)

\* C7: at every point the match list is the matches built from 'osmatches',
\* in input order, followed by the placeholders (line -1), which are in the
\* order in which the classes they were made for were processed.
C7_DeclaredThenPlaceholders ==
    pc # "raised" =>
        /\ Len(__osmatches) >= Declared
        /\ \A k \in 1..Declared :
              /\ line(__osmatches[k]) # -1
              /\ Declares(__osmatches[k], InMatches[k])
        /\ \A k \in DOMAIN __osmatches : k > Declared => line(__osmatches[k]) = -1
        /\ \E f \in Increasing(Len(__osmatches) - Declared, Len(InClasses)) :
              \A k \in DOMAIN f : PlaceholderOf(__osmatches[Declared + k], InClasses[f[k]])

\* two declared matches followed by the placeholders of two different classes
C7_Witness ==
    /\ Done
    /\ Len(InMatches) = 2
    /\ InMatches[1] # InMatches[2]
    /\ Len(__osmatches) = 4
    /\ line(__osmatches[3]) = -1
    /\ line(__osmatches[4]) = -1
    /\ __osmatches[3].name = "router:Cisco:IOS"
    /\ __osmatches[4].name = ":Microsoft:Windows"

\* C8: add_osclass called on a built match with a built NmapOSClass succeeds
\* and leaves the match as it was but for that class appended to its list.
C8_AddOsclassAppends ==
    (ret.op = "add_osclass" /\ "cls" \in DOMAIN ret.class_dict) =>
        /\ ret.ok
        /\ __osmatches[ret.match] =
              [ret.before EXCEPT !.osclasses = Append(@, ret.class_dict)]

\* the 'fingerprint' texts of the report, in order
RECURSIVE ProbeTexts(_)
ProbeTexts(entries) ==
    IF entries = <<>> THEN <<>>
    ELSE IF "fingerprint" \in DOMAIN Head(entries)
         THEN <<Head(entries).fingerprint>> \o ProbeTexts(Tail(entries))
         ELSE ProbeTexts(Tail(entries))

\* texts separated by "\r\n"
RECURSIVE Lines(_)
Lines(texts) ==
    IF texts = <<>> THEN ""
    ELSE IF Tail(texts) = <<>> THEN Head(texts)
    ELSE Head(texts) \o "\r\n" \o Lines(Tail(texts))

\* C9: once construction is done the probes list is the 'fingerprint' texts
\* of the 'osfingerprints' entries that have one, in input order; fingerprints
\* returns that list and fingerprint returns its elements separated by "\r\n".
C9_Probes ==
    Done =>
        /\ __fingerprints = ProbeTexts(InProbes)
        /\ ret.op = "fingerprints" => ret.out = Return(ProbeTexts(InProbes))
        /\ ret.op = "fingerprint" => ret.out = Return(Lines(ProbeTexts(InProbes)))

\* three entries, the second without 'fingerprint', and fingerprint read
C9_Witness ==
    /\ Done
    /\ Len(InProbes) = 3
    /\ "fingerprint" \notin DOMAIN InProbes[2]
    /\ ret.op = "fingerprint"
    /\ ret.out = Return("OS:Linux SEQ(...)\r\nOPS(...)")
    /\ __fingerprints = <<"OS:Linux SEQ(...)", "OPS(...)">>

\* C10: once construction is done every placeholder (line -1) holds exactly
\* one class, and there are as many placeholders as entries of 'osclasses'
\* whose accuracy is that of no match built from 'osmatches'.
C10_OnePlaceholderPerOrphan ==
    Done =>
        /\ \A k \in DOMAIN __osmatches :
              line(__osmatches[k]) = -1 => Len(__osmatches[k].osclasses) = 1
        /\ Cardinality({k \in DOMAIN __osmatches : line(__osmatches[k]) = -1})
              = Cardinality({j \in DOMAIN InClasses : SameAccuracy(InClasses[j]) = {}})

====
